---- MODULE Spec2Model ----
(***************************************************************************)
(* A model of simd.hpp: the lane-wise value type pack<T,N>, its            *)
(* constructors and compound assignments, the std::common_type             *)
(* specialisations, the dispatched binary and comparison operators, the    *)
(* shuffles, blend, reduce and the lane-0-seeded folds.                    *)
(*                                                                         *)
(* A pack<T,N> is the record [k |-> "pack", t |-> T, n |-> N, r |-> lanes] *)
(* with lanes a sequence of N integers (lane i of the code is r[i+1]);     *)
(* an arithmetic scalar is [k |-> "scalar", t |-> T, n |-> 1, r |-> <<c>>].*)
(* The element types modelled are signed char, unsigned char (8 bits) and  *)
(* int (32 bits).  The vector built-ins (arithmetic on r, comparisons,     *)
(* &&, ||, ?:, __builtin_shuffle, __builtin_convertvector) follow GCC's    *)
(* documented vector-extension semantics; an instantiation the compiler    *)
(* rejects is the result Rejected.                                         *)
(***************************************************************************)
EXTENDS Integers, Sequences, FiniteSets, TLC

VARIABLES x, y, z, out, steps

vars == <<x, y, z, out, steps>>

-----------------------------------------------------------------------------
(* Bounds of the model *)

\* widest pack drawn as an input (widths are the powers of two up to it)
MaxLanes == 2
\* scalars and lanes are drawn from -1..MaxVal and the edge values below
MaxVal == 1
\* number of compound assignments applied in a row to one receiver
MaxSteps == 2

-----------------------------------------------------------------------------
(* Element types *)

ElemTypes == {"schar", "uchar", "int"}

Bits(t) == IF t = "int" THEN 32 ELSE 8

IsSigned(t) == t # "uchar"

MinOf(t) == CASE t = "schar" -> -128 [] t = "uchar" -> 0 [] OTHER -> -2147483647 - 1

MaxOf(t) == CASE t = "schar" -> 127 [] t = "uchar" -> 255 [] OTHER -> 2147483647

InRange(t, v) == MinOf(t) <= v /\ v <= MaxOf(t)

\* T(v): conversion of an integer value to element type t.  To an 8-bit
\* type the value is reduced modulo 2^8 (into the signed range for signed
\* char); every value of the model is representable in int, so T = int
\* keeps it.
Conv(t, v) ==
    IF t = "int" THEN v
    ELSE LET m == v % 256
         IN  IF t = "schar" /\ m >= 128 THEN m - 256 ELSE m

\* decltype((r < r)[0]): the signed integer type as wide as t
IntTypeOf(t) == IF t = "uchar" THEN "schar" ELSE t

-----------------------------------------------------------------------------
(* Integer helpers for the scalar operators *)

RECURSIVE Pow2(_)
Pow2(b) == IF b <= 0 THEN 1 ELSE 2 * Pow2(b - 1)

Abs(v) == IF v < 0 THEN -v ELSE v

\* C++ integer division truncates toward zero; the remainder has the sign
\* of the dividend
TruncDiv(a, b) ==
    LET q == Abs(a) \div Abs(b)
    IN  IF (a < 0) = (b < 0) THEN q ELSE -q

TruncRem(a, b) == a - b * TruncDiv(a, b)

\* bitwise operators on two's-complement values (sign-extended, so the
\* result is independent of the width)
RECURSIVE BitAnd(_, _)
BitAnd(a, b) ==
    IF a = 0 \/ b = 0 THEN 0
    ELSE IF a = -1 THEN b
    ELSE IF b = -1 THEN a
    ELSE (a % 2) * (b % 2) + 2 * BitAnd(a \div 2, b \div 2)

BitNot(a) == -a - 1

BitOr(a, b) == BitNot(BitAnd(BitNot(a), BitNot(b)))

BitXor(a, b) == BitAnd(BitOr(a, b), BitNot(BitAnd(a, b)))

ArithOps == {"+", "-", "*", "/", "%", "&", "|", "^", "<<", ">>"}

LogicOps == {"&&", "||"}

BinaryOps == ArithOps \cup LogicOps

CompareOps == {"==", "!=", "<", "<=", ">", ">="}

\* the exact (unreduced) result of a op b
Exact(op, a, b) ==
    CASE op = "+"  -> a + b
      [] op = "-"  -> a - b
      [] op = "*"  -> a * b
      [] op = "/"  -> TruncDiv(a, b)
      [] op = "%"  -> TruncRem(a, b)
      [] op = "&"  -> BitAnd(a, b)
      [] op = "|"  -> BitOr(a, b)
      [] op = "^"  -> BitXor(a, b)
      [] op = "<<" -> a * Pow2(b)
      [] op = ">>" -> a \div Pow2(b)

\* a op b has defined behaviour at element type t: no division by zero,
\* no signed overflow, shift count within the width
Defined(op, t, a, b) ==
    CASE op \in {"+", "-", "*"} -> IsSigned(t) => InRange(t, Exact(op, a, b))
      [] op \in {"/", "%"}      -> b # 0 /\ InRange(t, TruncDiv(a, b))
      [] op = "<<"              -> /\ 0 <= b /\ b < Bits(t)
                                   /\ IsSigned(t) => (a >= 0 /\ InRange(t, Exact(op, a, b)))
      [] op = ">>"              -> 0 <= b /\ b < Bits(t)
      [] OTHER                  -> TRUE

\* the scalar operator a op b on two values of element type t, its result
\* held in type t
ScalarOp(op, t, a, b) == Conv(t, Exact(op, a, b))

Truth(v) == v # 0

ScalarLogic(op, a, b) ==
    IF op = "&&" THEN Truth(a) /\ Truth(b) ELSE Truth(a) \/ Truth(b)

ScalarCompare(op, a, b) ==
    CASE op = "==" -> a = b
      [] op = "!=" -> a # b
      [] op = "<"  -> a < b
      [] op = "<=" -> a <= b
      [] op = ">"  -> a > b
      [] op = ">=" -> a >= b

-----------------------------------------------------------------------------
(* Types: pack_properties and the std::common_type specialisations *)

PackT(t, n) == [k |-> "pack", t |-> t, n |-> n]

ScalarT(t) == [k |-> "scalar", t |-> t, n |-> 1]

\* no type: the instantiation is ill-formed
NoType == [k |-> "none", t |-> "none", n |-> 0]

TypeOf(v) == [k |-> v.k, t |-> v.t, n |-> v.n]

IsSimd(A) == A.k = "pack"

\* std::common_type_t<T,V> of two arithmetic element types: the type itself
\* when they agree, else the usual arithmetic conversions (both 8-bit types
\* promote to int)
CommonElem(t, v) == IF t = v THEN t ELSE "int"

\* common_type<pack<T,N>, pack<V,N>>
CommonPackPack(A, B) == PackT(CommonElem(A.t, B.t), A.n)

\* common_type<pack<T,N>, V>
CommonPackAny(A, B) == PackT(CommonElem(A.t, B.t), A.n)

\* a slip that keeps the pack's own element type
CommonAnyPackOwn(A, B) == PackT(B.t, B.n)

\* common_type<T, pack<V,N>>
CommonAnyPack(A, B) == PackT(CommonElem(A.t, B.t), B.n)

\* std::common_type_t<A,B>: the most specialised matching partial
\* specialisation; two packs of different widths match the second and the
\* third, neither more specialised than the other: ambiguous, no type
CommonType(A, B) ==
    IF IsSimd(A) /\ IsSimd(B) /\ A.n = B.n THEN CommonPackPack(A, B)
    ELSE IF IsSimd(A) /\ IsSimd(B) THEN NoType
    ELSE IF IsSimd(A) THEN CommonPackAny(A, B)
    ELSE IF IsSimd(B) THEN CommonAnyPack(A, B)
    ELSE ScalarT(CommonElem(A.t, B.t))

-----------------------------------------------------------------------------
(* Values *)

Pack(t, r) == [k |-> "pack", t |-> t, n |-> Len(r), r |-> r]

Scalar(t, c) == [k |-> "scalar", t |-> t, n |-> 1, r |-> <<c>>]

\* the value of an ill-formed expression
Rejected == [k |-> "none", t |-> "none", n |-> 0, r |-> <<>>]

\* a slip that fills the lanes without converting the scalar to T
BroadcastUnconverted(t, n, c) == [k |-> "pack", t |-> t, n |-> n, r |-> [i \in 1..n |-> c]]

\* pack(const V &x) : r(T(x) - aligned{}): the scalar converted to T, minus
\* the zero vector
Broadcast(t, n, c) == Pack(t, [i \in 1..n |-> ScalarOp("-", t, Conv(t, c), 0)])

\* pack(const pack<V,N> &x) : r(__builtin_convertvector(x.r, aligned))
ConvertVector(t, v) == Pack(t, [i \in 1..v.n |-> Conv(t, v.r[i])])

\* R(v): the constructor of pack type R chosen for the argument v.  A pack
\* of another width matches only pack(const V &), whose T(x) is ill-formed.
Construct(R, v) ==
    IF v.k = "scalar" THEN Broadcast(R.t, R.n, v.r[1])
    ELSE IF v.n # R.n THEN Rejected
    ELSE IF v.t = R.t THEN v
    ELSE ConvertVector(R.t, v)

\* lane i (from 0) of an operand; a scalar counts as the same value in
\* every lane
Lane(v, i) == IF v.k = "scalar" THEN v.r[1] ELSE v.r[i + 1]

-----------------------------------------------------------------------------
(* Built-in operators on the underlying vectors *)

\* a slip that applies the operator with its operands exchanged
VecArithSwapped(op, t, a, b) == [i \in 1..Len(a) |-> ScalarOp(op, t, b[i], a[i])]

\* a op b on two vectors of element type t: lane by lane
VecArith(op, t, a, b) == [i \in 1..Len(a) |-> ScalarOp(op, t, a[i], b[i])]

\* the encoding of a lane-wise truth value: all bits set, or zero
MaskOf(b) == IF b THEN -1 ELSE 0

\* a && b, a || b on two vectors: a != 0 & b != 0, a != 0 | b != 0
VecLogic(op, a, b) == [i \in 1..Len(a) |-> MaskOf(ScalarLogic(op, a[i], b[i]))]

\* a slip that encodes a true lane as the scalar true, 1
VecCompareBool(op, a, b) ==
    [i \in 1..Len(a) |-> IF ScalarCompare(op, a[i], b[i]) THEN 1 ELSE 0]

\* a == b, a < b, ... on two vectors
VecCompare(op, a, b) == [i \in 1..Len(a) |-> MaskOf(ScalarCompare(op, a[i], b[i]))]

VecDefined(op, t, a, b) == \A i \in 1..Len(a) : Defined(op, t, a[i], b[i])

-----------------------------------------------------------------------------
(* Dispatched binary and comparison operators *)

\* the operator templates take part in overload resolution when an operand
\* is a pack and common_type_t<T,V> exists
Dispatches(a, b) ==
    /\ IsSimd(TypeOf(a)) \/ IsSimd(TypeOf(b))
    /\ CommonType(TypeOf(a), TypeOf(b)) # NoType

\* R operator op (const T &x, const V &y) { return R(x).r op R(y).r; }
\* The result of && and || is a vector of the signed integer type as wide
\* as R's element; returning it as R is well-formed only when that is R's
\* own vector type.
BinaryOperator(op, a, b) ==
    LET R == CommonType(TypeOf(a), TypeOf(b))
    IN  IF ~Dispatches(a, b) THEN Rejected
        ELSE IF op \in LogicOps
             THEN IF IntTypeOf(R.t) # R.t THEN Rejected
                  ELSE Pack(R.t, VecLogic(op, Construct(R, a).r, Construct(R, b).r))
             ELSE Pack(R.t, VecArith(op, R.t, Construct(R, a).r, Construct(R, b).r))

\* M operator op (const T &x, const V &y) { return R(x).r op R(y).r; }
\* with M = R::int_type
CompareOperator(op, a, b) ==
    LET R == CommonType(TypeOf(a), TypeOf(b))
    IN  IF ~Dispatches(a, b) THEN Rejected
        ELSE Pack(IntTypeOf(R.t), VecCompare(op, Construct(R, a).r, Construct(R, b).r))

\* the operands of a op b give every lane defined behaviour
OperandsDefined(op, a, b) ==
    LET R == CommonType(TypeOf(a), TypeOf(b))
    IN  Dispatches(a, b) /\ op \in ArithOps
            => VecDefined(op, R.t, Construct(R, a).r, Construct(R, b).r)

-----------------------------------------------------------------------------
(* Inputs *)

\* an 8-bit edge value: above signed char's range, and wraps unsigned char
\* when doubled
EdgeVal == 200

RawVals == (-1..MaxVal) \cup {EdgeVal}

\* the values of element type t drawn as lanes and scalars
LaneVals(t) == {Conv(t, v) : v \in RawVals}

\* vector_size is a power of two
Widths == {n \in 1..MaxLanes : \E e \in 0..MaxLanes : n = Pow2(e)}

PacksOf(t, n) == {Pack(t, r) : r \in [1..n -> LaneVals(t)]}

Packs == UNION {PacksOf(tn[1], tn[2]) : tn \in ElemTypes \X Widths}

Scalars == UNION {{Scalar(t, c) : c \in LaneVals(t)} : t \in ElemTypes}

Operands == Packs \cup Scalars

\* the result of the last operation: its name, its argument that is no
\* operand (the function of reduce, the operator of a compound assignment,
\* the type constructed), its value, and the calls reduce made to its
\* function argument
NoOut == [op |-> "none", arg |-> "none", v |-> Rejected, calls |-> <<>>]

Result(op, v) == [op |-> op, arg |-> "none", v |-> v, calls |-> <<>>]

-----------------------------------------------------------------------------
(* Operator dispatch: auto c = x op y; *)

Init ==
    /\ x \in Operands
    /\ y \in Operands
    /\ x.k = "pack" \/ y.k = "pack"
    /\ z = Rejected
    /\ out = NoOut
    /\ steps = 0

ApplyBinary ==
    /\ out.op = "none"
    /\ \E op \in BinaryOps :
          /\ OperandsDefined(op, x, y)
          /\ out' = Result(op, BinaryOperator(op, x, y))
    /\ UNCHANGED <<x, y, z, steps>>

ApplyCompare ==
    /\ out.op = "none"
    /\ \E op \in CompareOps : out' = Result(op, CompareOperator(op, x, y))
    /\ UNCHANGED <<x, y, z, steps>>

\* std::common_type_t<decltype(x), decltype(y)>
ApplyCommonType ==
    /\ out.op = "none"
    /\ out' = Result("common_type", CommonType(TypeOf(x), TypeOf(y)) @@ [r |-> <<>>])
    /\ UNCHANGED <<x, y, z, steps>>

Next == ApplyBinary \/ ApplyCompare \/ ApplyCommonType

Spec == Init /\ [][Next]_vars

-----------------------------------------------------------------------------
(* Properties of operator dispatch *)

\* the operands are a vector of width N and a vector of width N or a scalar
WidthsAgree(a, b) ==
    /\ a.k = "pack" \/ b.k = "pack"
    /\ (a.k = "pack" /\ b.k = "pack") => a.n = b.n

WidthOf(a, b) == IF a.k = "pack" THEN a.n ELSE b.n

\* lane i of operand a converted to the promoted element type of a and b
Promoted(a, b, i) == Conv(CommonElem(a.t, b.t), Lane(a, i))

\* the result is a pack of element type t and of the operands' width
ShapeIs(v, t, a, b) == v.k = "pack" /\ v.t = t /\ v.n = WidthOf(a, b) /\ Len(v.r) = v.n

\* C1 as stated: for every dispatched binary operator, && and || included,
\* and operands of agreeing widths, the result is a vector of the promoted
\* type whose lane i is x_i op y_i computed with the scalar operator (true
\* being 1, false 0) on the operands converted to the promoted element type.
C1_AsStated ==
    (out.op \in BinaryOps /\ WidthsAgree(x, y)) =>
        LET t == CommonElem(x.t, y.t)
        IN  /\ ShapeIs(out.v, t, x, y)
            /\ \A i \in 0..(out.v.n - 1) :
                  Lane(out.v, i) =
                      IF out.op \in LogicOps
                      THEN Conv(t, IF ScalarLogic(out.op, Promoted(x, y, i), Promoted(y, x, i))
                                   THEN 1 ELSE 0)
                      ELSE ScalarOp(out.op, t, Promoted(x, y, i), Promoted(y, x, i))

\* C1 amended: for the ten operators + - * / % & | ^ << >> and operands of
\* agreeing widths, the result is a vector of the promoted type whose lane i
\* is x_i op y_i computed with the scalar operator on the operands converted
\* to the promoted element type; x && y and x || y are instantiable only
\* when the promoted element type is a signed integer type, and then lane i
\* is all-bits-set (-1) when the scalar x_i && y_i (x_i || y_i) is true and
\* 0 when it is false.
C1_LaneWise ==
    (out.op \in BinaryOps /\ WidthsAgree(x, y)) =>
        LET t == CommonElem(x.t, y.t)
        IN  IF out.op \in ArithOps
            THEN /\ ShapeIs(out.v, t, x, y)
                 /\ \A i \in 0..(out.v.n - 1) :
                       Lane(out.v, i) =
                           ScalarOp(out.op, t, Promoted(x, y, i), Promoted(y, x, i))
            ELSE IF IsSigned(t)
            THEN /\ ShapeIs(out.v, t, x, y)
                 /\ \A i \in 0..(out.v.n - 1) :
                       Lane(out.v, i) =
                           IF ScalarLogic(out.op, Promoted(x, y, i), Promoted(y, x, i))
                           THEN -1 ELSE 0
            ELSE out.v = Rejected

\* a signed 8-bit vector of width 2 is and-ed with an int scalar: the operands
\* are promoted to int and the true lane holds -1, the false lane 0
C1_Witness ==
    /\ out.op = "&&" /\ x.k = "pack" /\ x.t = "schar" /\ x.n = 2
    /\ y.k = "scalar" /\ y.t = "int"
    /\ out.v.t = "int" /\ Lane(out.v, 0) = -1 /\ Lane(out.v, 1) = 0

\* C2: for every comparison operator and operands of agreeing widths, the
\* result is a vector of the signed integer type as wide as the promoted
\* element type, whose lane i is all-bits-set (-1) exactly when x_i op y_i
\* holds and 0 otherwise; no lane holds any other value.
C2_ComparisonMask ==
    (out.op \in CompareOps /\ WidthsAgree(x, y)) =>
        /\ ShapeIs(out.v, IntTypeOf(CommonElem(x.t, y.t)), x, y)
        /\ \A i \in 0..(out.v.n - 1) :
              /\ Lane(out.v, i) \in {-1, 0}
              /\ Lane(out.v, i) = -1
                    <=> ScalarCompare(out.op, Promoted(x, y, i), Promoted(y, x, i))

\* a width-2 comparison of an unsigned vector with a scalar that is true in
\* one lane and false in the other
C2_Witness ==
    /\ out.op = "<" /\ x.k = "pack" /\ x.n = 2 /\ x.t = "uchar" /\ y.k = "scalar"
    /\ out.v.t = "schar" /\ Lane(out.v, 0) = -1 /\ Lane(out.v, 1) = 0

\* C9: promotion is symmetric and width-preserving: for operand types of
\* which at least one is a vector, common_type of (A,B) and of (B,A) are
\* the same; with agreeing widths it is the pack of the common element type
\* and the vector's width; two vectors of different widths have no common
\* type.
C9_PromotionSymmetric ==
    out.op = "common_type" =>
        /\ TypeOf(out.v) = CommonType(TypeOf(y), TypeOf(x))
        /\ IF WidthsAgree(x, y)
           THEN TypeOf(out.v) = PackT(CommonElem(x.t, y.t), WidthOf(x, y))
           ELSE TypeOf(out.v) = NoType

\* a scalar on the left of a vector of another element type
C9_Witness ==
    /\ out.op = "common_type" /\ x.k = "scalar" /\ y.k = "pack" /\ y.n = 2
    /\ x.t = "schar" /\ y.t = "uchar" /\ TypeOf(out.v) = PackT("int", 2)

-----------------------------------------------------------------------------
(* blend *)

\* std::common_type_t<A,B,C>: common_type applied left to right
CommonType3(A, B, C) ==
    LET AB == CommonType(A, B)
    IN  IF AB = NoType THEN NoType ELSE CommonType(AB, C)

\* a slip that exchanges the two candidates
VecSelectSwapped(c, a, b) == [i \in 1..Len(c) |-> IF c[i] # 0 THEN b[i] ELSE a[i]]

\* c ? a : b on vectors: lane i is c[i] ? a[i] : b[i]
VecSelect(c, a, b) == [i \in 1..Len(c) |-> IF c[i] # 0 THEN a[i] ELSE b[i]]

\* R blend (const T &test, const V &yes, const W &no)
\*     { return test.r ? R(yes).r : R(no).r; }
\* with R = pack<type<common_type_t<T,V,W>>, size<T>>.  The vector
\* conditional needs test.r to have as many lanes, each as wide, as R's.
blend(test, yes, no) ==
    LET C == CommonType3(TypeOf(test), TypeOf(yes), TypeOf(no))
        R == PackT(C.t, test.n)
    IN  IF ~IsSimd(TypeOf(test)) \/ C = NoType THEN Rejected
        ELSE IF Bits(test.t) # Bits(R.t) THEN Rejected
        ELSE Pack(R.t, VecSelect(test.r, Construct(R, yes).r, Construct(R, no).r))

\* all bits set, read at element type t
AllBits(t) == Conv(t, -1)

\* the packs whose every lane is all-bits-set or all-bits-zero
MaskPacks == {m \in Packs : \A i \in 1..m.n : m.r[i] \in {0, AllBits(m.t)}}

InitBlend ==
    /\ x \in MaskPacks
    /\ y \in Operands
    /\ z \in Operands
    /\ out = NoOut
    /\ steps = 0

\* auto c = blend(x, y, z);
ApplyBlend ==
    /\ out.op = "none"
    /\ out' = Result("blend", blend(x, y, z))
    /\ UNCHANGED <<x, y, z, steps>>

NextBlend == ApplyBlend

SpecBlend == InitBlend /\ [][NextBlend]_vars

\* a candidate is a scalar or a vector of the mask's width
CandidateFits(m, c) == c.k = "scalar" \/ c.n = m.n

\* the operand types the compiler accepts for blend(m, yes, no): widths
\* that agree, and mask lanes as wide as the lanes of the result
BlendAccepted(m, yes, no) ==
    /\ CandidateFits(m, yes) /\ CandidateFits(m, no)
    /\ Bits(m.t) = Bits(CommonElem(CommonElem(m.t, yes.t), no.t))

C11_AsStated ==
    (out.op = "blend" /\ out.v # Rejected) =>
        TypeOf(out.v) = PackT(CommonElem(y.t, z.t), x.n)

\* what the code computes instead: the element type is the promotion of the
\* element types of all three operands, the mask included; the width is
\* the width of the mask
BlendTypeFromAllThree ==
    (out.op = "blend" /\ out.v # Rejected) =>
        TypeOf(out.v) = PackT(CommonElem(CommonElem(x.t, y.t), z.t), x.n)

-----------------------------------------------------------------------------
(* Shuffles *)

\* a slip that reduces the index modulo N, so that the second source is
\* never selected
BuiltinShuffleOneSource(a, b, m) ==
    IF a.n # m.n \/ Bits(a.t) # Bits(m.t) \/ TypeOf(a) # TypeOf(b) THEN Rejected
    ELSE Pack(a.t, [j \in 1..m.n |-> a.r[(m.r[j] % a.n) + 1]])

\* __builtin_shuffle(a, b, m): the mask m has as many elements, each as
\* wide, as the vectors a and b; lane j is element m[j] mod 2N of the
\* concatenation of a and b
BuiltinShuffle(a, b, m) ==
    IF a.n # m.n \/ Bits(a.t) # Bits(m.t) \/ TypeOf(a) # TypeOf(b) THEN Rejected
    ELSE Pack(a.t, [j \in 1..m.n |->
                       LET k == m.r[j] % (2 * a.n)
                       IN  IF k < a.n THEN a.r[k + 1] ELSE b.r[k - a.n + 1]])

\* pack<T,M> operator [] (const pack<V,M> &s) const
\*     { return __builtin_shuffle(r, r, s.r); }
IndexOperator(v, s) == BuiltinShuffle(v, v, s)

\* pack<V,N> shuffle (const pack<V,N> &a, const pack<V,N> &b) const
\*     { return __builtin_shuffle(a.r, b.r, r); }
\* a and b are deduced as the same pack<V,N>, N the receiver's width
shuffle(idx, a, b) ==
    IF TypeOf(a) # TypeOf(b) \/ a.n # idx.n THEN Rejected
    ELSE BuiltinShuffle(a, b, idx)

\* index values: in range for two sources of the widest pack, and one
\* below and one above
IndexRaw == -1..(2 * MaxLanes)

IndexPacks ==
    UNION {{Pack(tn[1], r) : r \in [1..tn[2] -> {Conv(tn[1], v) : v \in IndexRaw}]}
              : tn \in ElemTypes \X Widths}

\* the second source: lanes that tell it from the first
SecondVals(t) == {Conv(t, EdgeVal), Conv(t, EdgeVal + 1)}

\* the vectors of the example program: z and indexes
ExampleZ == Pack("int", <<1, 2, 3, 4, 5, 6, 7, 8>>)

ExampleIndexes == Pack("int", <<0, 3, 2, 5, 1, 4, 6, 7>>)

InitShuffle ==
    /\ \/ /\ x \in IndexPacks
          /\ y \in Packs
          /\ z \in {Pack(y.t, r) : r \in [1..y.n -> SecondVals(y.t)]}
       \/ /\ x = ExampleIndexes
          /\ y = ExampleZ
          /\ z = ExampleZ
    /\ out = NoOut
    /\ steps = 0

\* auto c = y[x];
ApplyIndex ==
    /\ out.op = "none"
    /\ out' = Result("index", IndexOperator(y, x))
    /\ UNCHANGED <<x, y, z, steps>>

\* auto c = x.shuffle(y, z);
ApplyShuffle ==
    /\ out.op = "none"
    /\ out' = Result("shuffle", shuffle(x, y, z))
    /\ UNCHANGED <<x, y, z, steps>>

NextShuffle == ApplyIndex \/ ApplyShuffle

SpecShuffle == InitShuffle /\ [][NextShuffle]_vars

\* C4 as stated: for every source vector v (here y) of width N and integer
\* index vector idx (here x) of width M, v[idx] is a vector of width M
\* whose lane j equals v_(idx_j mod N), for every j in [0,M).
C4_AsStated ==
    out.op = "index" =>
        /\ out.v.k = "pack" /\ out.v.t = y.t /\ out.v.n = x.n /\ Len(out.v.r) = x.n
        /\ \A j \in 0..(x.n - 1) : Lane(out.v, j) = Lane(y, Lane(x, j) % y.n)

\* what holds of v[idx]: when idx has the source's width and element width
\* lane j is v_(idx_j mod N), for every index value
IndexWrapsWhenAccepted ==
    (out.op = "index" /\ x.n = y.n /\ Bits(x.t) = Bits(y.t)) =>
        /\ out.v.k = "pack" /\ out.v.t = y.t /\ out.v.n = x.n /\ Len(out.v.r) = x.n
        /\ \A j \in 0..(x.n - 1) : Lane(out.v, j) = Lane(y, Lane(x, j) % y.n)

\* z[indexes] of the example program is (1,4,3,6,2,5,7,8)
IndexExample ==
    (out.op = "index" /\ x = ExampleIndexes /\ y = ExampleZ) =>
        out.v = Pack("int", <<1, 4, 3, 6, 2, 5, 7, 8>>)

\* v[idx] has a value only when idx has the source's width
IndexNeedsSameWidth == (out.op = "index" /\ x.n # y.n) => out.v = Rejected

-----------------------------------------------------------------------------
(* reduce and the folds seeded with lane 0 *)

\* the function objects passed to reduce: neither commutative nor
\* associative
Functions == {"minus", "twice_plus", "first", "second"}

Apply(f, acc, v) ==
    CASE f = "minus"      -> acc - v
      [] f = "twice_plus" -> 2 * acc + v
      [] f = "first"      -> acc
      [] f = "second"     -> v

\* for (unsigned int i = ...; i < N; i++) out = function(out, s[i]);
\* from lane i with accumulator acc of type t, logging each call
RECURSIVE ReduceLoop(_, _, _, _, _, _)
ReduceLoop(f, s, t, i, acc, calls) ==
    IF i < s.n
    THEN ReduceLoop(f, s, t, i + 1, Conv(t, Apply(f, acc, Lane(s, i))),
                    Append(calls, [acc |-> acc, lane |-> i, val |-> Lane(s, i)]))
    ELSE [v |-> Scalar(t, acc), calls |-> calls]

\* a slip that starts at lane 1, as the folds seeded with lane 0 do
reduceFromOne(f, s, initial) == ReduceLoop(f, s, initial.t, 1, initial.r[1], <<>>)

\* R reduce(const F &function, const pack<T,N> &s, const R &initial)
reduce(f, s, initial) == ReduceLoop(f, s, initial.t, 0, initial.r[1], <<>>)

\* bool(v), as 1 or 0
BoolOf(v) == IF Truth(v) THEN 1 ELSE 0

\* one step r = r op s[i] of a fold whose accumulator has type t
FoldStep(op, t, r, v) ==
    CASE op = "any"  -> (IF Truth(r) \/ Truth(v) THEN 1 ELSE 0)
      [] op = "all"  -> (IF Truth(r) /\ Truth(v) THEN 1 ELSE 0)
      [] op = "sum"  -> ScalarOp("+", t, r, v)
      [] op = "prod" -> ScalarOp("*", t, r, v)
      [] op = "max"  -> IF r > v THEN r ELSE v
      [] op = "min"  -> IF r < v THEN r ELSE v

\* for(unsigned int i = 1; i < N; i++) r = r op s[i];
RECURSIVE FoldLoop(_, _, _, _, _)
FoldLoop(op, t, s, i, r) ==
    IF i < s.n THEN FoldLoop(op, t, s, i + 1, FoldStep(op, t, r, Lane(s, i))) ELSE r

\* bool r = s[0]; ... return r;
any(s) == Scalar("bool", FoldLoop("any", "bool", s, 1, BoolOf(Lane(s, 0))))

all(s) == Scalar("bool", FoldLoop("all", "bool", s, 1, BoolOf(Lane(s, 0))))

\* T r = s[0]; ... return r;
sum(s) == Scalar(s.t, FoldLoop("sum", s.t, s, 1, Lane(s, 0)))

prod(s) == Scalar(s.t, FoldLoop("prod", s.t, s, 1, Lane(s, 0)))

\* a slip that keeps the lesser of the two
maxKeepsLesser(s) == Scalar(s.t, FoldLoop("min", s.t, s, 1, Lane(s, 0)))

max(s) == Scalar(s.t, FoldLoop("max", s.t, s, 1, Lane(s, 0)))

min(s) == Scalar(s.t, FoldLoop("min", s.t, s, 1, Lane(s, 0)))

Folds == {"any", "all", "sum", "prod", "max", "min"}

FoldOf(op, s) ==
    CASE op = "any"  -> any(s)
      [] op = "all"  -> all(s)
      [] op = "sum"  -> sum(s)
      [] op = "prod" -> prod(s)
      [] op = "max"  -> max(s)
      [] op = "min"  -> min(s)

InitReduce ==
    /\ x \in Packs \cup {ExampleZ}
    /\ y \in Scalars
    /\ z = Rejected
    /\ out = NoOut
    /\ steps = 0

\* auto c = reduce(f, x, y);
ApplyReduce ==
    /\ out.op = "none"
    /\ \E f \in Functions :
          LET got == reduce(f, x, y)
          IN  out' = [op |-> "reduce", arg |-> f, v |-> got.v, calls |-> got.calls]
    /\ UNCHANGED <<x, y, z, steps>>

\* auto c = any(x); ... auto c = min(x);
ApplyFold ==
    /\ out.op = "none"
    /\ \E op \in Folds : out' = Result(op, FoldOf(op, x))
    /\ UNCHANGED <<x, y, z, steps>>

NextReduce == ApplyReduce \/ ApplyFold

SpecReduce == InitReduce /\ [][NextReduce]_vars

\* f(...f(f(initial, s_0), s_1)..., s_(n-1)), each result held in the type
\* of initial
RECURSIVE Nested(_, _, _, _)
Nested(f, s, initial, n) ==
    IF n = 0 THEN initial.r[1]
    ELSE Conv(initial.t, Apply(f, Nested(f, s, initial, n - 1), Lane(s, n - 1)))

\* C6: for every vector v (here x) of width N, seed initial (here y) and
\* binary function f, reduce(f, v, initial) returns
\* f(...f(f(initial, v_0), v_1)..., v_(N-1)): f is applied exactly N times,
\* once per lane, in strictly increasing lane order, with the accumulator
\* as its first argument.
C6_ReduceLeftFold ==
    out.op = "reduce" =>
        /\ out.v = Scalar(y.t, Nested(out.arg, x, y, x.n))
        /\ Len(out.calls) = x.n
        /\ \A j \in 0..(x.n - 1) :
              out.calls[j + 1] = [acc  |-> Nested(out.arg, x, y, j),
                                  lane |-> j,
                                  val  |-> Lane(x, j)]

\* a width-2 vector whose lanes differ, folded with a function that is
\* neither commutative nor associative, where the order shows
C6_Witness ==
    /\ out.op = "reduce" /\ out.arg = "twice_plus" /\ x.n = 2
    /\ Lane(x, 0) # Lane(x, 1) /\ y.t = "int" /\ x.t = "int"
    /\ out.v.r[1] = 4 * y.r[1] + 2 * Lane(x, 0) + Lane(x, 1)
    /\ out.v.r[1] # 4 * y.r[1] + 2 * Lane(x, 1) + Lane(x, 0)

\* acc = v_0; for j in 1..n-1: acc = f(acc, v_j), for the first n lanes
RECURSIVE SeededFold(_, _, _)
SeededFold(op, s, n) ==
    LET t == IF op \in {"any", "all"} THEN "bool" ELSE s.t
    IN  IF n = 1
        THEN (IF op \in {"any", "all"} THEN BoolOf(Lane(s, 0)) ELSE Lane(s, 0))
        ELSE FoldStep(op, t, SeededFold(op, s, n - 1), Lane(s, n - 1))

\* C7: for every vector v (here x) of width N >= 1, each of any, all, sum,
\* prod, max, min returns the left fold acc = v_0; for j in 1..N-1:
\* acc = f(acc, v_j), with f logical-or, logical-and, +, *, greater-of-two,
\* lesser-of-two (for any and all the accumulator is the truthiness of the
\* lane); for N = 1 each returns lane 0 (its truthiness for any and all);
\* for z = (1,2,3,4,5,6,7,8), sum = 36, prod = 40320, max = 8, min = 1.
C7_SeededFolds ==
    out.op \in Folds =>
        /\ out.v.k = "scalar"
        /\ out.v.t = (IF out.op \in {"any", "all"} THEN "bool" ELSE x.t)
        /\ out.v.r[1] = SeededFold(out.op, x, x.n)
        /\ x.n = 1 =>
              out.v.r[1] = (IF out.op \in {"any", "all"} THEN BoolOf(Lane(x, 0))
                            ELSE Lane(x, 0))
        /\ x = ExampleZ =>
              out.v.r[1] = (CASE out.op = "sum"  -> 36
                              [] out.op = "prod" -> 40320
                              [] out.op = "max"  -> 8
                              [] out.op = "min"  -> 1
                              [] OTHER           -> 1)

\* the product of the example vector z
C7_Witness == out.op = "prod" /\ x = ExampleZ /\ out.v = Scalar("int", 40320)

-----------------------------------------------------------------------------
(* Construction from a scalar and compound assignment *)

\* a slip that computes in the promoted type of receiver and operand and
\* converts the result back, instead of converting the operand first
CompoundAssignPromoted(op, a, v) ==
    LET R == CommonType(TypeOf(a), TypeOf(v))
    IN  Construct(TypeOf(a),
                  Pack(R.t, VecArith(op, R.t, Construct(R, a).r, Construct(R, v).r)))

\* pack & operator op= (const V &x) { r op= pack(x).r; return *this; }
\* the receiver after the assignment
CompoundAssign(op, a, v) ==
    Pack(a.t, VecArith(op, a.t, a.r, Construct(TypeOf(a), v).r))

\* a op= v is well-formed (pack(v) exists) and every lane has defined
\* behaviour
AssignDefined(op, a, v) ==
    /\ Construct(TypeOf(a), v) # Rejected
    /\ VecDefined(op, a.t, a.r, Construct(TypeOf(a), v).r)

InitAssign ==
    /\ x \in Packs
    /\ y \in Operands
    /\ z = x
    /\ out = NoOut
    /\ steps = 0

\* x op= y;  z keeps the receiver as it was before the assignment, out.v
\* the object the returned reference denotes
ApplyCompound ==
    /\ steps < MaxSteps
    /\ out.op \in {"none", "compound"}
    /\ \E op \in ArithOps :
          /\ AssignDefined(op, x, y)
          /\ x' = CompoundAssign(op, x, y)
          /\ out' = [op |-> "compound", arg |-> op, v |-> x', calls |-> <<>>]
    /\ z' = x
    /\ steps' = steps + 1
    /\ y' = y

\* pack<T,N> c(y); for a scalar y
ApplyBroadcast ==
    /\ out.op = "none"
    /\ y.k = "scalar"
    /\ \E t \in ElemTypes, n \in Widths :
          out' = [op |-> "broadcast", arg |-> PackT(t, n),
                  v |-> Broadcast(t, n, y.r[1]), calls |-> <<>>]
    /\ UNCHANGED <<x, y, z, steps>>

NextAssign == ApplyCompound \/ ApplyBroadcast

SpecAssign == InitAssign /\ [][NextAssign]_vars

\* C8: for each compound assignment op= in {+=, -=, *=, /=, %=, &=, |=, ^=,
\* <<=, >>=}, a receiver a (here x, before: z) of type pack<T,N> and a
\* right-hand operand (here y; a scalar or a vector of width N of any
\* element type), the operand is first converted to pack<T,N>; after
\* a op= y, lane i of a equals (old a_i) op T(y_i) for every i in [0,N),
\* the receiver's element type and width are unchanged, and the operation
\* returns the receiver itself.
C8_CompoundAssign ==
    out.op = "compound" =>
        /\ TypeOf(x) = TypeOf(z) /\ Len(x.r) = x.n
        /\ \A i \in 0..(x.n - 1) :
              Lane(x, i) = ScalarOp(out.arg, x.t, Lane(z, i), Conv(x.t, Lane(y, i)))
        /\ out.v = x

\* an unsigned 8-bit receiver divided by an int scalar that only fits T
\* after conversion: -1 becomes 255
C8_Witness ==
    /\ out.op = "compound" /\ out.arg = "/" /\ x.t = "uchar" /\ x.n = 2
    /\ y = Scalar("int", -1) /\ z.r = <<200, 255>> /\ x.r = <<0, 1>>

\* C10: broadcast construction: for every element type T, width N and
\* scalar c (here y) of any arithmetic type, pack<T,N>(c) has lane i equal
\* to T(c) for every i in [0,N).
C10_Broadcast ==
    out.op = "broadcast" =>
        /\ TypeOf(out.v) = out.arg /\ Len(out.v.r) = out.arg.n
        /\ \A i \in 0..(out.arg.n - 1) : Lane(out.v, i) = Conv(out.arg.t, y.r[1])

\* an int scalar outside unsigned char's range broadcast to two lanes
C10_Witness ==
    /\ out.op = "broadcast" /\ y = Scalar("int", -1)
    /\ out.v = Pack("uchar", <<255, 255>>)

====
